---- MODULE Spec2Model ----
(***************************************************************************)
(* CricLive backend: the TTL cache store (backend/src/cache.js), the two   *)
(* refresh strategies (scheduled poller, on-demand poller) and the route   *)
(* layer that reads the cache.                                             *)
(*                                                                         *)
(* Time is the value of Date.now() in milliseconds.                        *)
(***************************************************************************)
EXTENDS Integers, Sequences, FiniteSets, TLC

VARIABLES
    now,        \* Date.now(), milliseconds
    store,      \* Cache.store : key -> entry | NoEntry
    ret,        \* the last Cache API call made directly and what it returned
    mode,       \* which refresh strategy is deployed: "scheduled" or "ondemand"
    pollSecs,   \* POLL_SECS, parsed from LIVE_POLL_INTERVAL
    ttlConf,    \* the TTLs parsed from CACHE_CURRENT_TTL, CACHE_UPCOMING_TTL,
                \* CACHE_SCORECARD_TTL and CACHE_MATCH_INFO_TTL, in seconds
    liveFrom,   \* the time the fetch was started whose result cache.set last
                \* stored under currentMatches, or NoTime
    started,    \* the time poller.start() ran, or NoTime
    attemptCount, \* pollCount (scheduled) / fetchCount (on-demand)
    lastSuccess,  \* time of the last successful currentMatches refresh, or NoTime
    lastError,    \* message of the last failed currentMatches refresh, or NoError
    inflight,   \* the set of upstream fetches awaiting their response
    pending,    \* request handlers suspended on an await, by slot
    cronLive,   \* time the currentMatches cron task last fired, or NoTime
    cronUpcoming, \* time the upcomingMatches cron task last fired, or NoTime
    reqLeft,    \* client requests still to arrive in this run
    resp,       \* the HTTP response the last step sent, if it sent one
    lastEvent,  \* what the last step did when it settled a fetch: a cache.set
                \* (its key and the module that called it) or a failure
    call        \* the scraper function called directly, its argument and, once
                \* it has run, what it returned or threw

cachevars == <<now, store, ret>>
sysvars == <<mode, pollSecs, ttlConf, liveFrom, started, attemptCount, lastSuccess, lastError,
             inflight, pending, cronLive, cronUpcoming, reqLeft, resp, lastEvent, call>>
vars == <<now, store, ret, call, mode, pollSecs, ttlConf, liveFrom,
          started, attemptCount, lastSuccess,
          lastError, inflight, pending, cronLive, cronUpcoming, reqLeft, resp,
          lastEvent>>

----------------------------------------------------------------------------
(* Bounds of the model *)

MaxTtl == 1          \* largest ttlSeconds passed to set by the cache harness
MaxClock == 4        \* the cache harness stops the clock after this many half seconds
MaxRequests == 1     \* client requests received in one run of the whole server
MaxClients == 2      \* client requests received in one run of the on-demand list routes
MaxRunSecs == 15     \* seconds of wall-clock time one run covers

----------------------------------------------------------------------------
(* Program constants *)

MS_PER_SEC == 1000
LIVE_TTL == 30
UPCOMING_TTL == 300
SCORECARD_TTL == 30
MATCH_INFO_TTL == 60
DEFAULT_POLL_SECS == 30
MIN_POLL_SECS == 10
FETCH_TIMEOUT == 15000
SECS_PER_MIN == 60
SECS_PER_HOUR == 3600
UPCOMING_CRON_MINS == 5

----------------------------------------------------------------------------
(* Cache keys and values *)

LiveKey == "currentMatches"
UpcomingKey == "upcomingMatches"

ListKeys == {LiveKey, UpcomingKey}

\* ids a client asks the detail routes for
DetailIds == {"1~a"}

\* const cacheKey = `scorecard:${id}` / `matchinfo:${id}`
ScorecardKey(id) == "scorecard:" \o id
MatchInfoKey(id) == "matchinfo:" \o id

DetailKeys == {ScorecardKey(id) : id \in DetailIds} \cup {MatchInfoKey(id) : id \in DetailIds}
Keys == ListKeys \cup DetailKeys

NoEntry == [absent |-> TRUE]
Null == [null |-> TRUE]

ValueA == [data |-> <<"1">>]
ValueB == [data |-> <<"2">>]
HarnessValues == {ValueA, ValueB}

----------------------------------------------------------------------------
(* class Cache *)

\* constructor(): this.store = new Map()
EmptyStore == [k \in Keys |-> NoEntry]

\* set() that keeps the cachedAt of the entry it overwrites
StoreSetKeepsCachedAt(st, k, v, ttl, t) ==
    [st EXCEPT ![k] = [value |-> v,
                       expiresAt |-> t + ttl * MS_PER_SEC,
                       cachedAt |-> IF st[k] = NoEntry THEN t ELSE st[k].cachedAt]]

\* set(key, value, ttlSeconds)
StoreSet(st, k, v, ttl, t) ==
    [st EXCEPT ![k] = [value |-> v,
                       expiresAt |-> t + ttl * MS_PER_SEC,
                       cachedAt |-> t]]

\* an expiry test that already fails at the expiry instant
ExpiredAtExpiry(e, t) == t >= e.expiresAt

\* the expiry test of get(): Date.now() > entry.expiresAt
Expired(e, t) == t > e.expiresAt

\* get(key): the value returned
GetResult(st, k, t) ==
    IF st[k] = NoEntry THEN Null
    ELSE IF Expired(st[k], t) THEN Null
    ELSE st[k]

\* a get() that reports an expired entry absent but leaves it in the store
GetStoreKeepsExpired(st, k, t) == st

\* get(key): the store it leaves (an expired entry is deleted)
GetStore(st, k, t) ==
    IF st[k] # NoEntry /\ Expired(st[k], t) THEN [st EXCEPT ![k] = NoEntry]
    ELSE st

\* has(key)
HasResult(st, k, t) == GetResult(st, k, t) # Null

\* delete(key)
StoreDelete(st, k) == [st EXCEPT ![k] = NoEntry]

\* age(key): null when there is no entry, else whole seconds since cachedAt
AgeIsNull(st, k) == st[k] = NoEntry
AgeSeconds(st, k, t) == (t - st[k].cachedAt) \div MS_PER_SEC

\* flush()
StoreFlush(st) == [k \in Keys |-> NoEntry]

\* stats()
StatsTotal(st) == Cardinality({k \in Keys : st[k] # NoEntry})
StatsActive(st, t) == Cardinality({k \in Keys : st[k] # NoEntry /\ t < st[k].expiresAt})

----------------------------------------------------------------------------
(* Upstream: the live-scores page as fetchMatchList normalizes it *)

NoTime == -1
\* the value of started once an unhandled rejection has ended the process
Crashed == -2
NoError == "null"
NoReq == [idle |-> TRUE]

Match(id, st, en, status) ==
    [id |-> id, matchStarted |-> st, matchEnded |-> en, status |-> status]

\* the versions of the page upstream may serve
Pages == {1, 2}

PageMatches(p) ==
    IF p = 1
    THEN <<Match("1~a", TRUE, FALSE, "Day 1: Session 2"),
           Match("2~b", FALSE, FALSE, "Scheduled")>>
    ELSE <<Match("2~b", TRUE, FALSE, "Ind opt to bat"),
           Match("3", FALSE, FALSE, "Scheduled")>>

\* (m.status || '').toLowerCase().includes('preview') || ...includes('starts')
StatusAnnouncesStart(status) == status \in {"Preview", "Match starts at 09:30 GMT"}

\* the page upstream serves at time t: the scoreboard changes once, on the minute
PageChange == 600 * MS_PER_SEC
PageAt(t) == IF t < PageChange THEN 1 ELSE 2

\* getCurrentMatches(): started or about to start; every match when none is
GetCurrentMatches(p) ==
    LET matches == PageMatches(p)
        current == SelectSeq(matches,
                     LAMBDA m : m.matchStarted \/ StatusAnnouncesStart(m.status))
    IN [data |-> IF Len(current) > 0 THEN current ELSE matches]

\* getMatches(): everything
GetMatches(p) == [data |-> PageMatches(p)]

\* getScorecard(id) resolves to { data: { scorecard } }; .data is cached
ScorecardData(id) == [scorecard |-> id]

\* getMatchInfo(id) resolves to { data: { id, ...info } }; .data is cached
MatchInfoData(id) == [id |-> id, info |-> id]

\* err.message of a failed upstream call
TimeoutMsg == "network timeout"
ErrMsgs == {TimeoutMsg, "Cricbuzz HTTP 503 for /cricket-match/live-scores",
            "Could not find currentMatchesList in Cricbuzz page"}

----------------------------------------------------------------------------
(* Configuration *)

\* the values LIVE_POLL_INTERVAL is given in the environment
PollSecsValues == {5, DEFAULT_POLL_SECS, 55}

\* Math.max(POLL_SECS, 10)
CronStep(ps) == IF ps > MIN_POLL_SECS THEN ps ELSE MIN_POLL_SECS

\* node-cron `*/N * * * * *`: fires when the second of the minute is a multiple of N
IsLiveCronTime(t, ps) ==
    /\ t % MS_PER_SEC = 0
    /\ ((t \div MS_PER_SEC) % SECS_PER_MIN) % CronStep(ps) = 0

\* node-cron `*/5 * * * *`: fires at second 0 of every fifth minute
IsUpcomingCronTime(t) == t % (UPCOMING_CRON_MINS * SECS_PER_MIN * MS_PER_SEC) = 0

\* parseInt(process.env.CACHE_..._TTL || '30'): the values of a deployment
\* that sets none of the four variables
DefaultTtls == [live |-> LIVE_TTL, upcoming |-> UPCOMING_TTL,
                scorecard |-> SCORECARD_TTL, matchInfo |-> MATCH_INFO_TTL]

\* the TTL each writer passes to cache.set
TtlOf(k) ==
    IF k = LiveKey THEN ttlConf.live
    ELSE IF k = UpcomingKey THEN ttlConf.upcoming
    ELSE IF k \in {ScorecardKey(id) : id \in DetailIds} THEN ttlConf.scorecard
    ELSE ttlConf.matchInfo

----------------------------------------------------------------------------
(* Route helpers *)

\* current?.value?.data || []
DataOf(entry) == IF entry = Null THEN <<>> ELSE entry.value.data

\* the merge loop of GET /matches: seen is the Set of ids, merged the output
RECURSIVE MergeLoop(_, _, _)
MergeLoop(all, seen, merged) ==
    IF all = <<>> THEN merged
    ELSE LET m == Head(all)
         IN IF m.id \in seen
            THEN MergeLoop(Tail(all), seen, merged)
            ELSE MergeLoop(Tail(all), seen \cup {m.id}, Append(merged, m))

\* a merge that walks the upcoming list first
MergeUpcomingFirst(currentData, upcomingData) ==
    MergeLoop(upcomingData \o currentData, {}, <<>>)

Merge(currentData, upcomingData) == MergeLoop(currentData \o upcomingData, {}, <<>>)

\* .filter(m => m.matchStarted === true && m.matchEnded === false)
LiveOnly(data) == SelectSeq(data, LAMBDA m : m.matchStarted /\ ~m.matchEnded)

\* all.find(m => m.id === id)
FindMatch(all, id) ==
    IF \E i \in DOMAIN all : all[i].id = id
    THEN {all[CHOOSE i \in DOMAIN all :
                 all[i].id = id /\ \A j \in DOMAIN all : all[j].id = id => i <= j]}
    ELSE {}

\* cache.age(key) as sendCached receives it: a number, or Null
AgeOf(st, k, t) == IF AgeIsNull(st, k) THEN Null ELSE [n |-> AgeSeconds(st, k, t)]

\* a response: its status code, the X-Cache-Hit and X-Cache-Age headers, the
\* data of the body (a list of records) or its error message, and whether the
\* handler made an upstream fetch to produce it
NoResp == [route |-> "none", status |-> 0, hit |-> "none", age |-> 0,
           data |-> <<>>, message |-> "", fetched |-> FALSE]

\* sendCached(res, key, data, age)
SendCached(route, data, age, fetched) ==
    [route |-> route, status |-> 200,
     hit |-> IF age # Null THEN "true" ELSE "false",
     age |-> IF age # Null THEN age.n ELSE 0,
     data |-> data, message |-> "", fetched |-> fetched]

\* res.status(code).json({ status: 'error', message })
SendError(route, code, message, fetched) ==
    [route |-> route, status |-> code, hit |-> "none", age |-> 0,
     data |-> <<>>, message |-> message, fetched |-> fetched]

\* the 503 message of GET /matches: the on-demand routes word it differently
UnavailableMsg ==
    IF mode = "ondemand" THEN "Match data unavailable" ELSE "Match data not yet available"

\* GET /matches, from the two cache.get results
RespondMatches(current, upcoming, st, t, fetched) ==
    IF current = Null /\ upcoming = Null
    THEN SendError("matches", 503, UnavailableMsg, fetched)
    ELSE SendCached("matches", Merge(DataOf(current), DataOf(upcoming)),
                    IF current # Null THEN AgeOf(st, LiveKey, t) ELSE Null, fetched)

\* GET /matches/live
RespondLive(current, st, t, fetched) ==
    IF current = Null
    THEN SendError("live", 503, "Not ready yet", fetched)
    ELSE SendCached("live", LiveOnly(DataOf(current)), AgeOf(st, LiveKey, t), fetched)

\* GET /match/:id/score
RespondScore(id, current, upcoming, st, t, fetched) ==
    LET found == FindMatch(DataOf(current) \o DataOf(upcoming), id)
    IN IF found = {}
       THEN SendError("score", 404, "Match not found in cache", fetched)
       ELSE LET match == CHOOSE m \in found : TRUE
            IN SendCached("score",
                          <<[status |-> match.status,
                             matchStarted |-> match.matchStarted,
                             matchEnded |-> match.matchEnded]>>,
                          AgeOf(st, LiveKey, t), fetched)

\* the store after cache.get('currentMatches') and cache.get('upcomingMatches')
GetBothStore(st, t) == GetStore(GetStore(st, LiveKey, t), UpcomingKey, t)

----------------------------------------------------------------------------
(* Upstream fetches in flight *)

\* one slot for every request a run can receive
ReqSlots == 1..(MaxRequests + MaxClients)

FreeReqSlots(pd) == {r \in ReqSlots : pd[r] = NoReq}
LowestOf(S) == CHOOSE x \in S : \A y \in S : x <= y

InFlightFor(fl, key) == {f \in fl : f.key = key}

\* a fetch that joins the one already in flight for the key
LaunchCoalesced(fl, key, by, req, t) ==
    IF InFlightFor(fl, key) # {} THEN fl
    ELSE fl \cup {[key |-> key, startedAt |-> t, by |-> by, req |-> req]}

\* fetchPage(path) is called: one more request is awaiting its response.
\* by is the caller ("start", "cron" or "route"), req the suspended request
\* handler that awaits it (0 when none does)
Launch(fl, key, by, req, t) ==
    fl \cup {[key |-> key, startedAt |-> t, by |-> by, req |-> req]}

\* the time by which fetchPage has either answered or timed out
Deadline(fr) == fr.startedAt + FETCH_TIMEOUT

----------------------------------------------------------------------------
(* The deployed server: poller.start(), the cron tasks, the routes *)

StartTimes == {590 * MS_PER_SEC}
RunEnd == 590 * MS_PER_SEC + MaxRunSecs * MS_PER_SEC
\* time advances by no more than one fetch timeout at a step
TickStep == FETCH_TIMEOUT

NoRet == [op |-> "none", key |-> LiveKey, at |-> 0, null |-> TRUE,
          value |-> ValueA, num |-> 0, wasExpired |-> FALSE]
NoEvent == [op |-> "none", key |-> "none", by |-> "none"]
NoCall == [fn |-> "none"]

\* the state of everything but the cache before app.listen's callback runs
SysIdle ==
    /\ started = NoTime
    /\ attemptCount = 0
    /\ lastSuccess = NoTime
    /\ lastError = NoError
    /\ inflight = {}
    /\ pending = [r \in ReqSlots |-> NoReq]
    /\ cronLive = NoTime
    /\ cronUpcoming = NoTime
    /\ resp = NoResp
    /\ lastEvent = NoEvent
    /\ call = NoCall
    /\ liveFrom = NoTime

\* the server as deployed with its default configuration, under either policy
Init ==
    /\ now \in StartTimes
    /\ store = EmptyStore
    /\ ret = NoRet
    /\ mode \in {"scheduled", "ondemand"}
    /\ pollSecs = DEFAULT_POLL_SECS
    /\ ttlConf = DefaultTtls
    /\ reqLeft = MaxRequests
    /\ SysIdle

\* the process has started and has not been ended
Alive == started # NoTime /\ started # Crashed

\* start(): both refreshes are issued at once; the scheduled poller also
\* registers its two cron tasks
Start ==
    /\ started = NoTime
    /\ started' = now
    /\ attemptCount' = attemptCount + 1
    /\ inflight' = Launch(Launch(inflight, LiveKey, "start", 0, now),
                          UpcomingKey, "start", 0, now)
    /\ resp' = NoResp /\ lastEvent' = NoEvent
    /\ UNCHANGED <<now, store, ret, call, mode, pollSecs, ttlConf, liveFrom, lastSuccess, lastError, pending,
                   cronLive, cronUpcoming, reqLeft>>

\* cron.schedule(cronExpr, pollCurrentMatches) fires
CronLive ==
    /\ mode = "scheduled" /\ Alive /\ now > started
    /\ IsLiveCronTime(now, pollSecs) /\ cronLive # now
    /\ cronLive' = now
    /\ attemptCount' = attemptCount + 1
    /\ inflight' = Launch(inflight, LiveKey, "cron", 0, now)
    /\ resp' = NoResp /\ lastEvent' = NoEvent
    /\ UNCHANGED <<now, store, ret, call, mode, pollSecs, ttlConf, liveFrom, started, lastSuccess, lastError,
                   pending, cronUpcoming, reqLeft>>

\* cron.schedule('*/5 * * * *', pollUpcomingMatches) fires
CronUpcoming ==
    /\ mode = "scheduled" /\ Alive /\ now > started
    /\ IsUpcomingCronTime(now) /\ cronUpcoming # now
    /\ cronUpcoming' = now
    /\ inflight' = Launch(inflight, UpcomingKey, "cron", 0, now)
    /\ resp' = NoResp /\ lastEvent' = NoEvent
    /\ UNCHANGED <<now, store, ret, call, mode, pollSecs, ttlConf, liveFrom, started, attemptCount, lastSuccess,
                   lastError, pending, cronLive, reqLeft>>

CronDue ==
    /\ mode = "scheduled" /\ now > started
    /\ \/ IsLiveCronTime(now, pollSecs) /\ cronLive # now
       \/ IsUpcomingCronTime(now) /\ cronUpcoming # now

TimedOut == \E f \in inflight : now >= Deadline(f)

\* the next instant something is due: a whole second within the step on which a
\* cron task fires, a fetch deadline, the end of the step or the end of the run
NextInstant ==
    LET secs == {s * MS_PER_SEC :
                   s \in ((now \div MS_PER_SEC) + 1)..((now + TickStep) \div MS_PER_SEC)}
        crons == IF mode = "scheduled"
                 THEN {t \in secs : IsLiveCronTime(t, pollSecs) \/ IsUpcomingCronTime(t)}
                 ELSE {}
        deadlines == {Deadline(f) : f \in inflight}
        due == {t \in crons \cup deadlines \cup {now + TickStep, RunEnd} :
                  t > now /\ t <= now + TickStep /\ t <= RunEnd}
    IN LowestOf(due)

\* time passes; a due cron task and an expired fetch timeout run first
Tick ==
    /\ started # NoTime
    /\ now < RunEnd
    /\ ~CronDue /\ ~TimedOut
    /\ now' = NextInstant
    /\ resp' = NoResp
    /\ lastEvent' = NoEvent
    /\ UNCHANGED <<store, ret, call, mode, pollSecs, ttlConf, liveFrom, started, attemptCount, lastSuccess,
                   lastError, inflight, pending, cronLive, cronUpcoming, reqLeft>>

\* what the poller stores under a list key: getCurrentMatches() / getMatches()
ListValue(k, p) == IF k = LiveKey THEN GetCurrentMatches(p) ELSE GetMatches(p)

\* what a detail route stores under its cacheKey: data.data
DetailValue(route, id) ==
    IF route = "scorecard" THEN ScorecardData(id) ELSE MatchInfoData(id)

\* a detail route that caches under the poller's key
RouteCacheKeyLive(route, id) == LiveKey

\* the cacheKey of a detail route
RouteCacheKey(route, id) ==
    IF route = "scorecard" THEN ScorecardKey(id) ELSE MatchInfoKey(id)

ListRoutes == {"matches", "live", "score"}

\* was the fetch issued by a poller function (pollCurrentMatches,
\* fetchCurrentMatches, ...) rather than by a detail route
IsPollerFetch(fr, pd) == fr.req = 0 \/ pd[fr.req].route \in ListRoutes

\* a poller that caches an empty list when its refresh fails
PollerStoreEmptyOnFailure(st, k, ok, p, t) ==
    StoreSet(st, k, IF ok THEN ListValue(k, p) ELSE [data |-> <<>>], TtlOf(k), t)

\* a poller that drops the entry when its refresh fails
PollerStoreClearsOnFailure(st, k, ok, p, t) ==
    IF ok THEN StoreSet(st, k, ListValue(k, p), TtlOf(k), t) ELSE StoreDelete(st, k)

\* a settled poller fetch of key k: cache.set on success, nothing on failure
PollerStore(st, k, ok, p, t) ==
    IF ok THEN StoreSet(st, k, ListValue(k, p), TtlOf(k), t) ELSE st

\* is the request of fr resumed when fr settles (Promise.all waits for every fetch)
Resumes(fl, f) ==
    /\ f.req # 0
    /\ \A g \in fl \ {f} : g.req # f.req

\* a detail route that also caches what it has when its fetch fails
ResumeStoreCachesFailure(rq, st, ok, p, t) ==
    IF rq.route = "matches" THEN GetBothStore(st, t)
    ELSE IF rq.route \in {"live", "score"}
         THEN (IF ok THEN GetStore(st, LiveKey, t) ELSE st)
    ELSE StoreSet(st, RouteCacheKey(rq.route, rq.id),
                  DetailValue(rq.route, rq.id),
                  TtlOf(RouteCacheKey(rq.route, rq.id)), t)

\* the rest of a suspended handler, run when its await settles: the store it leaves
ResumeStore(rq, st, ok, p, t) ==
    IF rq.route = "matches" THEN GetBothStore(st, t)
    ELSE IF rq.route \in {"live", "score"}
         THEN (IF ok THEN GetStore(st, LiveKey, t) ELSE st)
    ELSE IF ok
         THEN StoreSet(st, RouteCacheKey(rq.route, rq.id),
                       DetailValue(rq.route, rq.id),
                       TtlOf(RouteCacheKey(rq.route, rq.id)), t)
         ELSE st

\* the rest of a suspended handler: the response it sends
ResumeResp(rq, st, ok, p, msg, t) ==
    IF rq.route = "matches"
    THEN RespondMatches(GetResult(st, LiveKey, t), GetResult(st, UpcomingKey, t),
                        GetBothStore(st, t), t, TRUE)
    ELSE IF rq.route = "live"
    THEN RespondLive(IF ok THEN GetResult(st, LiveKey, t) ELSE Null,
                     ResumeStore(rq, st, ok, p, t), t, TRUE)
    ELSE IF rq.route = "score"
    THEN RespondScore(rq.id, IF ok THEN GetResult(st, LiveKey, t) ELSE Null,
                      rq.snap, ResumeStore(rq, st, ok, p, t), t, TRUE)
    ELSE IF ok
    THEN SendCached(rq.route, <<DetailValue(rq.route, rq.id)>>, [n |-> 0], TRUE)
    ELSE SendError(rq.route, 500, msg, TRUE)

\* does the promise of the function that awaited the fetch reject when the
\* fetch fails: pollCurrentMatches / pollUpcomingMatches catch and return,
\* fetchCurrentMatches / fetchUpcomingMatches rethrow, getScorecard and
\* getMatchInfo have no catch of their own
RefreshRejects(md, polled) == ~polled \/ md = "ondemand"

\* a caller that never handles the rejection
CallerNeverCatches(md, by) == FALSE

\* does the caller handle the rejection: the routes do (.catch(() => {}) or
\* try/catch), so does the on-demand start(); the scheduled start() and the
\* cron tasks attach no handler
CallerCatches(md, by) == by = "route" \/ md = "ondemand"

\* a poller that caches the live list without recording the success
SuccessTimeNotRecorded(polled, ok, k, t, prev) == prev

\* lastSuccess after a fetch settled: pollCurrentMatches / fetchCurrentMatches
\* assign new Date() right after their cache.set; nothing else writes it
SuccessTime(polled, ok, k, t, prev) ==
    IF polled /\ ok /\ k = LiveKey THEN t ELSE prev

\* an upstream fetch settles: the awaiting poller function runs on, and when it
\* was the last fetch a request handler awaited, so does the handler
Settle(f, ok, p, msg) ==
    LET fr == f
        polled == IsPollerFetch(fr, pending)
        st1 == IF polled THEN PollerStore(store, fr.key, ok, p, now) ELSE store
        resumes == Resumes(inflight, f)
        rq == pending[fr.req]
    IN /\ inflight' = inflight \ {f}
       /\ started' = IF ~ok /\ RefreshRejects(mode, polled) /\ ~CallerCatches(mode, fr.by)
                     THEN Crashed ELSE started
       /\ store' = IF resumes THEN ResumeStore(rq, st1, ok, p, now) ELSE st1
       /\ resp' = IF resumes THEN ResumeResp(rq, st1, ok, p, msg, now) ELSE NoResp
       /\ pending' = IF resumes THEN [pending EXCEPT ![fr.req] = NoReq] ELSE pending
       /\ lastSuccess' = SuccessTime(polled, ok, fr.key, now, lastSuccess)
       /\ liveFrom' = IF polled /\ ok /\ fr.key = LiveKey THEN fr.startedAt ELSE liveFrom
       /\ lastError' = IF polled /\ ~ok /\ fr.key = LiveKey THEN msg ELSE lastError
       /\ lastEvent' = [op |-> IF ok THEN "set" ELSE "fail",
                        key |-> IF polled THEN fr.key ELSE RouteCacheKey(rq.route, rq.id),
                        by |-> IF polled THEN "poller" ELSE "route"]
       /\ UNCHANGED <<now, ret, call, mode, pollSecs, ttlConf, attemptCount, cronLive,
                      cronUpcoming, reqLeft>>

FetchSucceed(f, p) ==
    /\ f \in inflight /\ Alive
    /\ now < Deadline(f)
    /\ Settle(f, TRUE, p, NoError)

FetchFail(f, msg) ==
    /\ f \in inflight /\ Alive
    /\ (msg = TimeoutMsg) <=> (now >= Deadline(f))
    /\ Settle(f, FALSE, 1, msg)

----------------------------------------------------------------------------
(* Requests *)

CanServe == Alive /\ reqLeft > 0

NewReq(route, id, snap) == [route |-> route, id |-> id, snap |-> snap]

\* a handler that refetches the live list whether or not it found it missing
AwaitListsBoth(missing, route, id, snap) ==
    LET r == LowestOf(FreeReqSlots(pending))
        fl1 == Launch(inflight, LiveKey, "route", r, now)
        fl2 == IF UpcomingKey \in missing
               THEN Launch(fl1, UpcomingKey, "route", r, now) ELSE fl1
    IN /\ FreeReqSlots(pending) # {}
       /\ pending' = [pending EXCEPT ![r] = NewReq(route, id, snap)]
       /\ inflight' = fl2
       /\ attemptCount' = attemptCount + 1
       /\ resp' = NoResp

\* a handler suspends on the fetches of the list keys it found missing
\* (poller.fetchCurrentMatches() counts its call in fetchCount)
AwaitLists(missing, route, id, snap) ==
    LET r == LowestOf(FreeReqSlots(pending))
        fl1 == IF LiveKey \in missing
               THEN Launch(inflight, LiveKey, "route", r, now) ELSE inflight
        fl2 == IF UpcomingKey \in missing
               THEN Launch(fl1, UpcomingKey, "route", r, now) ELSE fl1
    IN /\ FreeReqSlots(pending) # {}
       /\ pending' = [pending EXCEPT ![r] = NewReq(route, id, snap)]
       /\ inflight' = fl2
       /\ attemptCount' = IF LiveKey \in missing THEN attemptCount + 1 ELSE attemptCount
       /\ resp' = NoResp

Answer(r) ==
    /\ resp' = r
    /\ UNCHANGED <<inflight, pending, attemptCount>>

\* GET /api/matches
ReqMatches ==
    LET current == GetResult(store, LiveKey, now)
        upcoming == GetResult(store, UpcomingKey, now)
        missing == {k \in ListKeys : GetResult(store, k, now) = Null}
    IN /\ CanServe
       /\ reqLeft' = reqLeft - 1
       /\ store' = GetBothStore(store, now)
       /\ IF mode = "ondemand" /\ missing # {}
          THEN AwaitLists(missing, "matches", "", Null)
          ELSE Answer(RespondMatches(current, upcoming, store', now, FALSE))
       /\ lastEvent' = NoEvent
       /\ UNCHANGED <<now, ret, call, mode, pollSecs, ttlConf, liveFrom, started, lastSuccess, lastError,
                      cronLive, cronUpcoming>>

\* GET /api/matches/live
ReqLive ==
    LET current == GetResult(store, LiveKey, now)
    IN /\ CanServe
       /\ reqLeft' = reqLeft - 1
       /\ store' = GetStore(store, LiveKey, now)
       /\ IF mode = "ondemand" /\ current = Null
          THEN AwaitLists({LiveKey}, "live", "", Null)
          ELSE Answer(RespondLive(current, store', now, FALSE))
       /\ lastEvent' = NoEvent
       /\ UNCHANGED <<now, ret, call, mode, pollSecs, ttlConf, liveFrom, started, lastSuccess, lastError,
                      cronLive, cronUpcoming>>

\* GET /api/match/:id/score
ReqScore(id) ==
    LET current == GetResult(store, LiveKey, now)
        upcoming == GetResult(store, UpcomingKey, now)
    IN /\ CanServe
       /\ reqLeft' = reqLeft - 1
       /\ store' = GetBothStore(store, now)
       /\ IF mode = "ondemand" /\ current = Null
          THEN AwaitLists({LiveKey}, "score", id, upcoming)
          ELSE Answer(RespondScore(id, current, upcoming, store', now, FALSE))
       /\ lastEvent' = NoEvent
       /\ UNCHANGED <<now, ret, call, mode, pollSecs, ttlConf, liveFrom, started, lastSuccess, lastError,
                      cronLive, cronUpcoming>>

\* GET /api/match/:id/scorecard and GET /api/match/:id/info
ReqDetail(route, id) ==
    LET cacheKey == RouteCacheKey(route, id)
        cached == GetResult(store, cacheKey, now)
        r == LowestOf(FreeReqSlots(pending))
    IN /\ CanServe
       /\ reqLeft' = reqLeft - 1
       /\ store' = GetStore(store, cacheKey, now)
       /\ IF cached # Null
          THEN Answer(SendCached(route, <<cached.value>>,
                                 AgeOf(store', cacheKey, now), FALSE))
          ELSE /\ FreeReqSlots(pending) # {}
               /\ pending' = [pending EXCEPT ![r] = NewReq(route, id, Null)]
               /\ inflight' = Launch(inflight, cacheKey, "route", r, now)
               /\ resp' = NoResp
               /\ UNCHANGED attemptCount
       /\ lastEvent' = NoEvent
       /\ UNCHANGED <<now, ret, call, mode, pollSecs, ttlConf, liveFrom, started, lastSuccess, lastError,
                      cronLive, cronUpcoming>>

ReqScorecard(id) == ReqDetail("scorecard", id)
ReqInfo(id) == ReqDetail("info", id)

\* GET /api/health
ReqHealth ==
    /\ CanServe
    /\ reqLeft' = reqLeft - 1
    /\ resp' = [route |-> "health", status |-> 200, hit |-> "none", age |-> 0,
                data |-> <<[total |-> StatsTotal(store),
                            active |-> StatsActive(store, now),
                            attemptCount |-> attemptCount, lastSuccess |-> lastSuccess,
                            lastError |-> lastError]>>,
                message |-> "", fetched |-> FALSE]
    /\ lastEvent' = NoEvent
    /\ UNCHANGED <<now, store, ret, call, mode, pollSecs, ttlConf, liveFrom, started, attemptCount, lastSuccess,
                   lastError, inflight, pending, cronLive, cronUpcoming>>

Next ==
    \/ Start
    \/ CronLive
    \/ CronUpcoming
    \/ \E f \in inflight : FetchSucceed(f, PageAt(now))
    \/ \E f \in inflight, msg \in ErrMsgs : FetchFail(f, msg)
    \/ ReqMatches
    \/ ReqLive
    \/ \E id \in DetailIds : ReqScore(id)
    \/ \E id \in DetailIds : ReqScorecard(id)
    \/ \E id \in DetailIds : ReqInfo(id)
    \/ ReqHealth
    \/ Tick

Spec == Init /\ [][Next]_vars

----------------------------------------------------------------------------
(* The cache driven directly through its API (module.exports = new Cache()) *)

HalfSecond == MS_PER_SEC \div 2

CacheInit ==
    /\ now = 0
    /\ store = EmptyStore
    /\ ret = NoRet
    /\ mode = "scheduled"
    /\ pollSecs = DEFAULT_POLL_SECS
    /\ ttlConf = DefaultTtls
    /\ reqLeft = 0
    /\ SysIdle

\* was the entry of k resident and past its expiry when the call was made
ResidentExpired(st, k, t) == st[k] # NoEntry /\ Expired(st[k], t)

CacheSet(k, v, ttl) ==
    /\ store' = StoreSet(store, k, v, ttl, now)
    /\ ret' = [op |-> "set", key |-> k, at |-> now, null |-> TRUE,
               value |-> v, num |-> ttl, wasExpired |-> ResidentExpired(store, k, now)]
    /\ UNCHANGED <<now, sysvars>>

\* num records the ttl the entry found was set with (0 when none was resident)
CacheGet(k) ==
    /\ store' = GetStore(store, k, now)
    /\ ret' = [op |-> "get", key |-> k, at |-> now,
               null |-> (GetResult(store, k, now) = Null),
               value |-> IF GetResult(store, k, now) = Null THEN ValueA
                         ELSE GetResult(store, k, now).value,
               num |-> IF store[k] = NoEntry THEN 0
                       ELSE (store[k].expiresAt - store[k].cachedAt) \div MS_PER_SEC,
               wasExpired |-> ResidentExpired(store, k, now)]
    /\ UNCHANGED <<now, sysvars>>

CacheHas(k) ==
    /\ store' = GetStore(store, k, now)
    /\ ret' = [op |-> "has", key |-> k, at |-> now,
               null |-> ~HasResult(store, k, now),
               value |-> ValueA, num |-> 0,
               wasExpired |-> ResidentExpired(store, k, now)]
    /\ UNCHANGED <<now, sysvars>>

CacheAge(k) ==
    /\ ret' = [op |-> "age", key |-> k, at |-> now,
               null |-> AgeIsNull(store, k),
               value |-> ValueA,
               num |-> IF AgeIsNull(store, k) THEN 0 ELSE AgeSeconds(store, k, now),
               wasExpired |-> ResidentExpired(store, k, now)]
    /\ UNCHANGED <<now, store, sysvars>>

CacheDelete(k) ==
    /\ store' = StoreDelete(store, k)
    /\ ret' = [op |-> "delete", key |-> k, at |-> now, null |-> TRUE,
               value |-> ValueA, num |-> 0,
               wasExpired |-> ResidentExpired(store, k, now)]
    /\ UNCHANGED <<now, sysvars>>

CacheFlush ==
    /\ store' = StoreFlush(store)
    /\ ret' = [op |-> "flush", key |-> LiveKey, at |-> now, null |-> TRUE,
               value |-> ValueA, num |-> 0, wasExpired |-> FALSE]
    /\ UNCHANGED <<now, sysvars>>

CacheStats ==
    /\ ret' = [op |-> "stats", key |-> LiveKey, at |-> now, null |-> FALSE,
               value |-> ValueA, num |-> StatsActive(store, now),
               wasExpired |-> FALSE]
    /\ UNCHANGED <<now, store, sysvars>>

\* the clock advances by half a second
CacheTick ==
    /\ now < MaxClock * HalfSecond
    /\ now' = now + HalfSecond
    /\ UNCHANGED <<store, ret, sysvars>>

CacheNext ==
    \/ \E k \in ListKeys, v \in HarnessValues, ttl \in 0..MaxTtl : CacheSet(k, v, ttl)
    \/ \E k \in ListKeys : CacheGet(k)
    \/ \E k \in ListKeys : CacheHas(k)
    \/ \E k \in ListKeys : CacheAge(k)
    \/ \E k \in ListKeys : CacheDelete(k)
    \/ CacheFlush
    \/ CacheStats
    \/ CacheTick

SpecCache == CacheInit /\ [][CacheNext]_vars

----------------------------------------------------------------------------
(* The on-demand server under two clients of its list routes *)

OnDemandInit ==
    /\ now \in StartTimes
    /\ store = EmptyStore
    /\ ret = NoRet
    /\ mode = "ondemand"
    /\ pollSecs = DEFAULT_POLL_SECS
    /\ ttlConf = DefaultTtls
    /\ reqLeft = MaxClients
    /\ SysIdle

OnDemandNext ==
    \/ Start
    \/ \E f \in inflight : FetchSucceed(f, PageAt(now))
    \/ \E f \in inflight, msg \in ErrMsgs : FetchFail(f, msg)
    \/ ReqMatches
    \/ ReqLive
    \/ Tick

SpecOnDemand == OnDemandInit /\ [][OnDemandNext]_vars

----------------------------------------------------------------------------
(* The scheduled poller alone, for every LIVE_POLL_INTERVAL, with no client *)

CronInit ==
    /\ now \in StartTimes
    /\ store = EmptyStore
    /\ ret = NoRet
    /\ mode = "scheduled"
    /\ pollSecs \in PollSecsValues
    /\ ttlConf = DefaultTtls
    /\ reqLeft = 0
    /\ SysIdle

CronNext ==
    \/ Start
    \/ CronLive
    \/ CronUpcoming
    \/ \E f \in inflight, p \in Pages : FetchSucceed(f, p)
    \/ \E f \in inflight, msg \in ErrMsgs : FetchFail(f, msg)
    \/ Tick

SpecCron == CronInit /\ [][CronNext]_vars

----------------------------------------------------------------------------
(* GET /api/matches over arbitrary cached lists *)

MaxList == 2         \* longest cached match list the merge is given

MergeIds == {"1", "2", "3"}
MergeMatches == {Match(id, FALSE, FALSE, s) : id \in MergeIds, s \in {"x", "y"}}
MergeLists == UNION {[1..n -> MergeMatches] : n \in 0..MaxList}

MergeInit ==
    /\ now \in StartTimes
    /\ \E c \in MergeLists, u \in MergeLists, hasC \in BOOLEAN, hasU \in BOOLEAN :
         store = [k \in Keys |->
                    IF k = LiveKey /\ hasC
                    THEN StoreSet(EmptyStore, k, [data |-> c], LIVE_TTL, now)[k]
                    ELSE IF k = UpcomingKey /\ hasU
                    THEN StoreSet(EmptyStore, k, [data |-> u], UPCOMING_TTL, now)[k]
                    ELSE NoEntry]
    /\ ret = NoRet
    /\ mode = "scheduled"
    /\ pollSecs = DEFAULT_POLL_SECS
    /\ ttlConf = DefaultTtls
    /\ reqLeft = 1
    /\ started = now
    /\ attemptCount = 1
    /\ lastSuccess = NoTime
    /\ lastError = NoError
    /\ inflight = {}
    /\ pending = [r \in ReqSlots |-> NoReq]
    /\ cronLive = NoTime
    /\ cronUpcoming = NoTime
    /\ resp = NoResp
    /\ lastEvent = NoEvent
    /\ call = NoCall
    /\ liveFrom = IF store[LiveKey] = NoEntry THEN NoTime ELSE store[LiveKey].cachedAt

MergeNext == ReqMatches

SpecMerge == MergeInit /\ [][MergeNext]_vars

----------------------------------------------------------------------------
(* The server deployed with TTLs set in its environment *)

\* what parseInt makes of CACHE_CURRENT_TTL and CACHE_SCORECARD_TTL: unset, or
\* set to "0" by a deployment that wants no caching
TtlConfigs ==
    {[live |-> l, upcoming |-> UPCOMING_TTL, scorecard |-> sc, matchInfo |-> MATCH_INFO_TTL] :
       l \in {0, LIVE_TTL}, sc \in {0, SCORECARD_TTL}}

TtlInit ==
    /\ now \in StartTimes
    /\ store = EmptyStore
    /\ ret = NoRet
    /\ mode \in {"scheduled", "ondemand"}
    /\ pollSecs = DEFAULT_POLL_SECS
    /\ ttlConf \in TtlConfigs
    /\ reqLeft = MaxRequests
    /\ SysIdle

SpecTtl == TtlInit /\ [][Next]_vars

----------------------------------------------------------------------------
(* The scheduled server some time after its last successful polls, every poll
   since then having failed: the list routes and cache.get on what is left *)

\* seconds since the last successful poll of a key
StaleAges == {0, 10, LIVE_TTL + 1, UPCOMING_TTL + 1}
NeverPolled == -1

\* the entry the poller left under k when it last succeeded, age seconds ago
PolledEntry(k, age, t) ==
    IF age = NeverPolled THEN NoEntry
    ELSE StoreSet(EmptyStore, k, ListValue(k, 1), TtlOf(k), t - age * MS_PER_SEC)[k]

\* the last time at or before t that is a multiple of every secs seconds
LastMultiple(t, secs) == (t \div (secs * MS_PER_SEC)) * (secs * MS_PER_SEC)

StaleInit ==
    /\ ttlConf = DefaultTtls
    /\ now \in StartTimes
    /\ \E ageL \in StaleAges \cup {NeverPolled}, ageU \in StaleAges \cup {NeverPolled} :
         /\ store = [k \in Keys |->
                       IF k = LiveKey THEN PolledEntry(k, ageL, now)
                       ELSE IF k = UpcomingKey THEN PolledEntry(k, ageU, now)
                       ELSE NoEntry]
         /\ lastSuccess = IF ageL = NeverPolled THEN NoTime ELSE now - ageL * MS_PER_SEC
         /\ lastError = IF ageL = 0 THEN NoError ELSE TimeoutMsg
    /\ ret = NoRet
    /\ mode = "scheduled"
    /\ pollSecs = DEFAULT_POLL_SECS
    /\ reqLeft = MaxRequests
    /\ started = 0
    /\ attemptCount = now \div (DEFAULT_POLL_SECS * MS_PER_SEC) + 1
    /\ inflight = {}
    /\ pending = [r \in ReqSlots |-> NoReq]
    /\ cronLive = LastMultiple(now, DEFAULT_POLL_SECS)
    /\ cronUpcoming = LastMultiple(now, UPCOMING_CRON_MINS * SECS_PER_MIN)
    /\ resp = NoResp
    /\ lastEvent = NoEvent
    /\ call = NoCall
    /\ liveFrom = IF store[LiveKey] = NoEntry THEN NoTime ELSE store[LiveKey].cachedAt

StaleNext ==
    \/ ReqMatches
    \/ ReqLive
    \/ \E k \in ListKeys : CacheGet(k)

SpecStale == StaleInit /\ [][StaleNext]_vars

----------------------------------------------------------------------------
(* The detail routes of a running on-demand server: the scorecard and the
   match info of an id were last fetched some seconds ago, or never *)

\* seconds since the route last stored the entry: fresh, short of each
\* default TTL and past it
DetailAges == {0, SCORECARD_TTL - 1, SCORECARD_TTL + 1, MATCH_INFO_TTL - 1, MATCH_INFO_TTL + 1}

\* seconds since a client request last made the server refresh both lists
ListAge == 10

\* the entry a detail route left under its key, age seconds ago
RouteEntry(route, id, age, t) ==
    IF age = NeverPolled THEN NoEntry
    ELSE StoreSet(EmptyStore, RouteCacheKey(route, id), DetailValue(route, id),
                  TtlOf(RouteCacheKey(route, id)), t - age * MS_PER_SEC)[RouteCacheKey(route, id)]

DetailInit ==
    /\ ttlConf = DefaultTtls
    /\ now \in StartTimes
    /\ \E ageS \in DetailAges \cup {NeverPolled}, ageI \in DetailAges \cup {NeverPolled} :
         store = [k \in Keys |->
                    IF k \in ListKeys THEN PolledEntry(k, ListAge, now)
                    ELSE IF \E id \in DetailIds : k = ScorecardKey(id)
                    THEN RouteEntry("scorecard", CHOOSE id \in DetailIds : k = ScorecardKey(id),
                                    ageS, now)
                    ELSE RouteEntry("info", CHOOSE id \in DetailIds : k = MatchInfoKey(id),
                                    ageI, now)]
    /\ ret = NoRet
    /\ mode = "ondemand"
    /\ pollSecs = DEFAULT_POLL_SECS
    /\ reqLeft = MaxClients
    /\ started = 0
    /\ attemptCount = 2
    /\ lastSuccess = now - ListAge * MS_PER_SEC
    /\ lastError = NoError
    /\ inflight = {}
    /\ pending = [r \in ReqSlots |-> NoReq]
    /\ cronLive = NoTime
    /\ cronUpcoming = NoTime
    /\ resp = NoResp
    /\ lastEvent = NoEvent
    /\ call = NoCall
    /\ liveFrom = IF store[LiveKey] = NoEntry THEN NoTime ELSE store[LiveKey].cachedAt

DetailNext ==
    \/ \E id \in DetailIds : ReqScorecard(id)
    \/ \E id \in DetailIds : ReqInfo(id)
    \/ \E f \in inflight : FetchSucceed(f, PageAt(now))
    \/ \E f \in inflight, msg \in ErrMsgs : FetchFail(f, msg)
    \/ Tick

SpecDetail == DetailInit /\ [][DetailNext]_vars

----------------------------------------------------------------------------
(* The scheduled poller in its steady state, with the default configuration
   and an upstream that answers every fetch: the last tick's poll was answered
   after some latency, the next tick is ahead *)

\* seconds upstream took to answer the poll of the last tick
Latencies == {0, 1, 5, 10, FETCH_TIMEOUT \div MS_PER_SEC - 1}

\* the entry pollCurrentMatches / pollUpcomingMatches stored when the fetch
\* started at time from was answered after secs seconds
AnsweredEntry(k, from, secs) ==
    StoreSet(EmptyStore, k, ListValue(k, 1), TtlOf(k), from + secs * MS_PER_SEC)[k]

SteadyInit ==
    /\ ttlConf = DefaultTtls
    /\ now \in StartTimes
    /\ mode = "scheduled"
    /\ pollSecs = DEFAULT_POLL_SECS
    /\ cronLive = LastMultiple(now, DEFAULT_POLL_SECS)
    /\ cronUpcoming = LastMultiple(now, UPCOMING_CRON_MINS * SECS_PER_MIN)
    /\ \E d \in Latencies, du \in Latencies :
         /\ store = [k \in Keys |->
                       IF k = LiveKey THEN AnsweredEntry(k, cronLive, d)
                       ELSE IF k = UpcomingKey THEN AnsweredEntry(k, cronUpcoming, du)
                       ELSE NoEntry]
         /\ lastSuccess = cronLive + d * MS_PER_SEC
    /\ liveFrom = cronLive
    /\ lastError = NoError
    /\ ret = NoRet
    /\ reqLeft = MaxRequests
    /\ started = 0
    /\ attemptCount = now \div (DEFAULT_POLL_SECS * MS_PER_SEC) + 1
    /\ inflight = {}
    /\ pending = [r \in ReqSlots |-> NoReq]
    /\ resp = NoResp
    /\ lastEvent = NoEvent
    /\ call = NoCall

SteadyNext ==
    \/ CronLive
    \/ CronUpcoming
    \/ \E f \in inflight : FetchSucceed(f, PageAt(now))
    \/ ReqLive
    \/ Tick

SpecSteady == SteadyInit /\ [][SteadyNext]_vars

----------------------------------------------------------------------------
(* cricbuzzScraper.js: the functions of the scraper, called directly *)

MaxCaps == 2         \* letters of a state string that may be written in upper case

\* A JavaScript value handed to the scraper. A string is held as its text in
\* lower case together with the positions of the letters written in upper case.
Str(text, caps) == [kind |-> "string", text |-> text, caps |-> caps]
Undefined == [kind |-> "undefined", text |-> "", caps |-> {}]
JsNull == [kind |-> "null", text |-> "", caps |-> {}]
JsNumber == [kind |-> "number", text |-> "7", caps |-> {}]

\* String.prototype.toLowerCase
ToLowerCase(s) == Str(s.text, {})

LIVE_STATES == {"in progress", "innings break", "strategic timeout", "rain",
                "bad light", "stumps", "drinks", "tea", "lunch", "in break"}
ENDED_STATES == {"complete", "result", "abandoned", "no result", "cancelled"}

\* Set.prototype.has on a Set of lower-case strings
SetHas(set, s) == s.caps = {} /\ s.text \in set

\* what a call returns: a value, or the error it threw
Returned(v) == [threw |-> FALSE, error |-> "", value |-> v]
Threw(msg) == [threw |-> TRUE, error |-> msg, value |-> [none |-> TRUE]]

\* a parseState that looks the state up as it is written
ParseStateAsWritten(state) ==
    LET st == IF state.kind = "undefined" THEN Str("", {}) ELSE state
    IN IF st.kind # "string" THEN Threw("TypeError")
       ELSE Returned([matchStarted |-> SetHas(ENDED_STATES, st) \/ SetHas(LIVE_STATES, st),
                      matchEnded |-> SetHas(ENDED_STATES, st)])

\* parseState(state = ''): the default applies to undefined only; toLowerCase
\* is a TypeError on null and on a value that is not a string
ParseState(state) ==
    LET st == IF state.kind = "undefined" THEN Str("", {}) ELSE state
    IN IF st.kind # "string" THEN Threw("TypeError")
       ELSE LET sl == ToLowerCase(st)
                matchEnded == SetHas(ENDED_STATES, sl)
                matchStarted == matchEnded \/ SetHas(LIVE_STATES, sl)
            IN Returned([matchStarted |-> matchStarted, matchEnded |-> matchEnded])

\* the state strings upstream is given to send, beside the two vocabularies
OtherStates == {"scheduled", "preview", "toss", "upcoming", "completed", "delay"}
StateTexts == LIVE_STATES \cup ENDED_STATES \cup OtherStates
StateStrings ==
    {Str(t, c) : t \in StateTexts, c \in SUBSET (1..MaxCaps)} \cup {Str("", {})}
StateValues == StateStrings \cup {Undefined, JsNull, JsNumber}

MaxSlugLen == 3      \* longest slug of a navigation link, in characters

\* Text whose characters matter is a sequence of one-character strings.
\* the characters of a slug: linkRe captures [^"]+
SlugChars == {"a", "-", "~"}
Slugs == UNION {[1..n -> SlugChars] : n \in 0..MaxSlugLen}

\* matchInfo.matchId, written in decimal
MatchIds == {<<"7">>, <<"4", "2">>}

\* normalizeMatch: the id it composes (an empty slug is falsy)
NormalizeId(matchId, slug) ==
    IF slug # <<>> THEN matchId \o <<"~">> \o slug ELSE matchId

\* String.prototype.split(sep): cur is the part being read, parts those read
RECURSIVE SplitLoop(_, _, _, _)
SplitLoop(str, sep, cur, parts) ==
    IF str = <<>> THEN Append(parts, cur)
    ELSE IF Head(str) = sep THEN SplitLoop(Tail(str), sep, <<>>, Append(parts, cur))
    ELSE SplitLoop(Tail(str), sep, Append(cur, Head(str)), parts)

Split(str, sep) == SplitLoop(str, sep, <<>>, <<>>)

ScorecardPrefix == <<"/live-cricket-scorecard/">>

\* getScorecard(id) / getMatchInfo(id): the path handed to fetchPage, from
\* const [matchId, slug] = id.split('~')
ScorecardPath(id) ==
    LET parts == Split(id, "~")
        matchId == parts[1]
        slug == IF Len(parts) >= 2 THEN parts[2] ELSE <<>>
    IN IF matchId = <<>> THEN Threw("Invalid match id")
       ELSE Returned(IF slug # <<>>
                     THEN ScorecardPrefix \o matchId \o <<"/">> \o slug
                     ELSE ScorecardPrefix \o matchId)

MaxEntries == 2      \* entries of wrapper.matches in one page

\* slugMap[m.matchInfo.matchId] || '': match 7 has a navigation link, 42 has none
SlugOf(matchId) == IF matchId = <<"7">> THEN <<"a", "-", "a">> ELSE <<>>

\* normalizeMatch(matchInfo, matchScore, slug): parseState may throw
NormalizeMatch(matchInfo, slug) ==
    LET parsed == ParseState(matchInfo.state)
    IN IF parsed.threw THEN parsed
       ELSE Returned(Match(NormalizeId(matchInfo.matchId, slug),
                           parsed.value.matchStarted, parsed.value.matchEnded, ""))

\* the loop over wrapper.matches: an entry without matchInfo is skipped, an
\* exception of normalizeMatch leaves the loop and fetchMatchList
RECURSIVE FlattenLoop(_, _)
FlattenLoop(entries, matches) ==
    IF entries = <<>> THEN Returned(matches)
    ELSE LET m == Head(entries)
         IN IF ~m.hasInfo THEN FlattenLoop(Tail(entries), matches)
            ELSE LET norm == NormalizeMatch(m.matchInfo, SlugOf(m.matchInfo.matchId))
                 IN IF norm.threw THEN norm
                    ELSE FlattenLoop(Tail(entries), Append(matches, norm.value))

Flatten(entries) == FlattenLoop(entries, <<>>)

\* the entries upstream is given to send: m.matchInfo missing, or present with
\* a state that is a string, missing, null or a number
EntryStates == {Str("complete", {1}), Str("scheduled", {}), Undefined, JsNull, JsNumber}
NoMatchInfo == [matchId |-> <<>>, state |-> Undefined]
Entries ==
    {[hasInfo |-> FALSE, matchInfo |-> NoMatchInfo]}
    \cup {[hasInfo |-> TRUE, matchInfo |-> [matchId |-> n, state |-> st]] :
            n \in MatchIds, st \in EntryStates}
EntryLists == UNION {[1..n -> Entries] : n \in 0..MaxEntries}

MaxHtmlLen == 5      \* tokens of one page

\* A page is a sequence of tokens: the braces, "q" for an escaped quote \",
\* "M" for the text currentMatchesList, "x" for any other run of characters.
\* Positions are those of JavaScript, from 0.
HtmlTokens == {"{", "}", "q", "x", "M"}
HtmlPages == UNION {[1..n -> HtmlTokens] : n \in 0..MaxHtmlLen}
key == <<"M">>

\* html[i], undefined outside the string
CharAt(html, i) == IF i >= 0 /\ i < Len(html) THEN html[i + 1] ELSE "undefined"

\* html.slice(a, b)
Slice(html, a, b) == SubSeq(html, a + 1, b)

\* html.indexOf(tok, from): -1 when there is none
IndexOf(html, tok, from) ==
    LET hits == {i \in 0..(Len(html) - 1) : i >= from /\ html[i + 1] = tok}
    IN IF hits = {} THEN -1 ELSE CHOOSE i \in hits : \A j \in hits : i <= j

NullSlice == [null |-> TRUE, start |-> -1, raw |-> <<>>]

\* the loop of extractJsonAt: every brace counts, inside a string or not
RECURSIVE ExtractLoop(_, _, _, _)
ExtractLoop(html, i, depth, start) ==
    IF i >= Len(html) THEN NullSlice
    ELSE LET c == CharAt(html, i)
         IN IF c = "{"
            THEN ExtractLoop(html, i + 1, depth + 1, IF depth = 0 THEN i ELSE start)
            ELSE IF c = "}"
            THEN IF depth - 1 = 0 /\ start # -1
                 THEN [null |-> FALSE, start |-> start, raw |-> Slice(html, start, i + 1)]
                 ELSE ExtractLoop(html, i + 1, depth - 1, start)
            ELSE ExtractLoop(html, i + 1, depth, start)

\* extractJsonAt(html, startIdx); start is where the returned slice begins
ExtractJsonAt(html, startIdx) == ExtractLoop(html, startIdx, 0, -1)

\* what JSON.parse takes for the end of the object opened at braceIdx: braces
\* inside a string do not count; -1 when the object is not closed
RECURSIVE CloseLoop(_, _, _, _)
CloseLoop(html, i, depth, inString) ==
    IF i >= Len(html) THEN -1
    ELSE LET c == CharAt(html, i)
         IN IF c = "q" THEN CloseLoop(html, i + 1, depth, ~inString)
            ELSE IF inString THEN CloseLoop(html, i + 1, depth, inString)
            ELSE IF c = "{" THEN CloseLoop(html, i + 1, depth + 1, inString)
            ELSE IF c = "}"
            THEN IF depth - 1 = 0 THEN i ELSE CloseLoop(html, i + 1, depth - 1, inString)
            ELSE CloseLoop(html, i + 1, depth, inString)

MatchingClose(html, braceIdx) == CloseLoop(html, braceIdx, 0, FALSE)

\* parseRscJson(raw) returns when raw is one object that ends with its own
\* closing brace (the runs "x" are taken to be legal where they stand)
JsonParses(raw) ==
    /\ raw # <<>>
    /\ raw[1] = "{"
    /\ MatchingClose(raw, 0) = Len(raw) - 1

\* fetchMatchList from the fetched page to the parsed data; start is where the
\* parsed text begins in the page
FetchMatchListData(html) ==
    LET keyIdx == IndexOf(html, key[1], 0)
        braceIdx == IndexOf(html, "{", keyIdx + Len(key))
        ext == ExtractJsonAt(html, braceIdx)
    IN IF keyIdx < 0 THEN Threw("Could not find currentMatchesList in Cricbuzz page")
       ELSE IF ext.null THEN Threw("Could not extract match list JSON")
       ELSE IF ~JsonParses(ext.raw) THEN Threw("SyntaxError")
       ELSE Returned([raw |-> ext.raw, start |-> ext.start])

MaxExtra == 1        \* largest count after a label of the Extras line

ExtraLabels == <<"b", "lb", "w", "nb", "p">>
LabelChars == [l \in {"b", "lb", "w", "nb", "p"} |->
                 CASE l = "b" -> <<"b">>
                   [] l = "lb" -> <<"l", "b">>
                   [] l = "w" -> <<"w">>
                   [] l = "nb" -> <<"n", "b">>
                   [] l = "p" -> <<"p">>]
DigitChars == <<"0", "1", "2", "3", "4", "5", "6", "7", "8", "9">>
IsDigit(c) == \E d \in DOMAIN DigitChars : DigitChars[d] = c
DigitValue(c) == (CHOOSE d \in DOMAIN DigitChars : DigitChars[d] = c) - 1

\* the decimal text of a count
RECURSIVE Decimal(_)
Decimal(n) == IF n < 10 THEN <<DigitChars[n + 1]>>
              ELSE Decimal(n \div 10) \o <<DigitChars[(n % 10) + 1]>>

\* text starts with pat at position i (from 1)
StartsAt(text, i, pat) ==
    /\ i + Len(pat) - 1 <= Len(text)
    /\ \A j \in 1..Len(pat) : text[i + j - 1] = pat[j]

\* (\d+) at position i: the value of the longest run of digits
RECURSIVE DigitRun(_, _, _)
DigitRun(text, i, acc) ==
    IF i <= Len(text) /\ IsDigit(text[i])
    THEN DigitRun(text, i + 1, acc * 10 + DigitValue(text[i]))
    ELSE acc

\* +(text.match(/<label> (\d+)/) || [])[1] || 0: the first place of the text
\* where the label, a space and a digit stand, wherever that is
ExtrasMatch(text, label) ==
    LET pat == LabelChars[label] \o <<" ">>
        hits == {i \in 1..Len(text) :
                   /\ StartsAt(text, i, pat)
                   /\ i + Len(pat) <= Len(text)
                   /\ IsDigit(text[i + Len(pat)])}
    IN IF hits = {} THEN 0
       ELSE LET first == CHOOSE i \in hits : \A j \in hits : i <= j
            IN DigitRun(text, first + Len(pat), 0)

ParseExtras(text) == [l \in DOMAIN LabelChars |-> ExtrasMatch(text, l)]

\* the Extras lines: a line gives a count to each label it shows, in the order
\* b, lb, w, nb, p; Absent marks a label the line does not show
Absent == [absent |-> TRUE]
ExtrasLines == [DOMAIN LabelChars -> {Absent} \cup {[absent |-> FALSE, n |-> n] : n \in 0..MaxExtra}]

RECURSIVE SumShown(_, _)
SumShown(line, i) ==
    IF i > Len(ExtraLabels) THEN 0
    ELSE (IF line[ExtraLabels[i]].absent THEN 0 ELSE line[ExtraLabels[i]].n)
         + SumShown(line, i + 1)

RECURSIVE JoinShown(_, _, _)
JoinShown(line, i, first) ==
    IF i > Len(ExtraLabels) THEN <<>>
    ELSE LET l == ExtraLabels[i]
         IN IF line[l].absent THEN JoinShown(line, i + 1, first)
            ELSE (IF first THEN <<>> ELSE <<",", " ">>)
                 \o LabelChars[l] \o <<" ">> \o Decimal(line[l].n)
                 \o JoinShown(line, i + 1, FALSE)

\* "Extras 9 (b 0, lb 1, w 8, nb 0, p 0)"
ExtrasText(line) ==
    <<"E", "x", "t", "r", "a", "s", " ">> \o Decimal(SumShown(line, 1))
    \o <<" ", "(">> \o JoinShown(line, 1, TRUE) \o <<")">>

\* The toss sentence, facts['Toss'], as its words; one space stands between
\* two words. The patterns have the flag i: a word is compared in lower case.
LowerWord(w) ==
    CASE w = "Won" -> "won"
      [] w = "Opt" -> "opt"
      [] w = "Bat" -> "bat"
      [] OTHER -> w

\* the words at positions i .. i + Len(pat) - 1 are those of pat, case apart
WordsAt(words, i, pat) ==
    /\ i >= 1 /\ i + Len(pat) - 1 <= Len(words)
    /\ \A j \in 1..Len(pat) : LowerWord(words[i + j - 1]) = pat[j]

\* tossText.match(/^(.+?)\s+won the toss/i): the number of words of the
\* shortest beginning that "won the toss" follows, 0 when there is no match
TossWinnerLen(words) ==
    LET hits == {i \in 1..Len(words) : WordsAt(words, i + 1, <<"won", "the", "toss">>)}
    IN IF hits = {} THEN 0 ELSE CHOOSE i \in hits : \A j \in hits : i <= j

\* tossText.match(/opt to (\w+)/i): the position of the first "opt to" that a
\* word follows, 0 when there is no match
TossChoiceAt(words) ==
    LET hits == {i \in 1..Len(words) :
                   WordsAt(words, i, <<"opt", "to">>) /\ i + 2 <= Len(words)}
    IN IF hits = {} THEN 0 ELSE CHOOSE i \in hits : \A j \in hits : i <= j

\* tossWinner and tossChoice of parseMatchInfoHtml; '' is <<>> and ""
ParseToss(words) ==
    [tossWinner |-> SubSeq(words, 1, TossWinnerLen(words)),
     tossChoice |-> IF TossChoiceAt(words) = 0 THEN ""
                    ELSE LowerWord(words[TossChoiceAt(words) + 2])]

\* the toss sentences upstream shows, whole or in part
TossSentences ==
    {team \o won \o link \o opt \o choice :
       team \in {<<>>, <<"India">>, <<"South", "Africa">>},
       won \in {<<>>, <<"won", "the", "toss">>, <<"Won", "the", "toss">>},
       link \in {<<>>, <<"and">>},
       opt \in {<<>>, <<"opt", "to">>, <<"Opt", "to">>, <<"elected", "to">>},
       choice \in {<<>>, <<"bat">>, <<"Bat">>, <<"bowl">>, <<"field">>, <<"bowl", "first">>}}

MaxHeaders == 2      \* innings headers of one scorecard page

\* the names an innings header or the SportsEvent schema gives a team, and the
\* team each name stands for
TeamOf(name) == IF name \in {"India", "IND"} THEN "India" ELSE "Australia"

\* the loop over the innings headers: a long name not seen before is pushed
RECURSIVE HeaderTeams(_, _)
HeaderTeams(headers, teams) ==
    IF headers = <<>> THEN teams
    ELSE HeaderTeams(Tail(headers),
                     IF \E i \in DOMAIN teams : teams[i] = Head(headers)
                     THEN teams ELSE Append(teams, Head(headers)))

\* teams.includes(name)
Includes(teams, name) == \E i \in DOMAIN teams : teams[i] = name

\* the teams of parseMatchInfoHtml: those of the headers, then each schema
\* name the list does not include; schema is <<>> when the event name has no
\* "T1 vs T2,"
MatchInfoTeams(headers, schema) ==
    LET teams == HeaderTeams(headers, <<>>)
        with1 == IF schema # <<>> /\ ~Includes(teams, schema[1])
                 THEN Append(teams, schema[1]) ELSE teams
        with2 == IF schema # <<>> /\ ~Includes(with1, schema[2])
                 THEN Append(with1, schema[2]) ELSE with1
    IN with2

\* the headers of one page name every team the same way: by its long name, or
\* by its short name when the header has no child of class tb:block
LongNames == {"India", "Australia"}
ShortNames == {"IND", "AUS"}
HeaderLists == UNION {[1..n -> LongNames] \cup [1..n -> ShortNames] : n \in 0..MaxHeaders}
SchemaPairs == {<<>>, <<"India", "Australia">>}

\* everything but call
servervars == <<now, store, ret, mode, pollSecs, ttlConf, liveFrom,
                started, attemptCount, lastSuccess,
                lastError, inflight, pending, cronLive, cronUpcoming, reqLeft, resp,
                lastEvent>>

NoOut == [threw |-> FALSE, error |-> "", value |-> [none |-> TRUE]]
NewCall(fn, arg) == [fn |-> fn, arg |-> arg, done |-> FALSE, out |-> NoOut]
Done(fn) == call.fn = fn /\ call.done

\* the called function runs and returns or throws
Run(fn, out) ==
    /\ call.fn = fn /\ ~call.done
    /\ call' = [call EXCEPT !.done = TRUE, !.out = out]
    /\ UNCHANGED servervars

ParseStateCall == Run("parseState", ParseState(call.arg))

\* parseMatchInfoHtml: the toss fields from the toss sentence
ParseTossCall == Run("parseToss", Returned(ParseToss(call.arg)))

\* parseMatchInfoHtml: the teams from the innings headers and the schema
MatchInfoTeamsCall ==
    Run("matchInfoTeams", Returned(MatchInfoTeams(call.arg.headers, call.arg.schema)))

\* parseExtras on the text of an Extras row
ParseExtrasCall == Run("parseExtras", Returned(ParseExtras(ExtrasText(call.arg))))

\* extractJsonAt on a page and the position of a brace
ExtractJsonAtCall == Run("extractJsonAt", Returned(ExtractJsonAt(call.arg.html, call.arg.startIdx)))

\* fetchMatchList, from the fetched page to the parsed data
FetchMatchListCall == Run("fetchMatchList", FetchMatchListData(call.arg))

\* fetchMatchList, from the parsed page on
FlattenCall == Run("flatten", Flatten(call.arg))

\* normalizeMatch composes the id of a match, getScorecard is then given it
ScorecardPathCall ==
    Run("scorecardPath", ScorecardPath(NormalizeId(call.arg.matchId, call.arg.slug)))

\* the scraper module loaded on its own: no server, an empty cache
ScraperIdle ==
    /\ liveFrom = NoTime
    /\ now = 0
    /\ store = EmptyStore
    /\ ret = NoRet
    /\ mode = "scheduled"
    /\ pollSecs = DEFAULT_POLL_SECS
    /\ ttlConf = DefaultTtls
    /\ reqLeft = 0
    /\ started = NoTime
    /\ attemptCount = 0
    /\ lastSuccess = NoTime
    /\ lastError = NoError
    /\ inflight = {}
    /\ pending = [r \in ReqSlots |-> NoReq]
    /\ cronLive = NoTime
    /\ cronUpcoming = NoTime
    /\ resp = NoResp
    /\ lastEvent = NoEvent

ScraperInit ==
    /\ ScraperIdle
    /\ \/ \E v \in StateValues : call = NewCall("parseState", v)
       \/ \E es \in EntryLists : call = NewCall("flatten", es)
       \/ \E words \in TossSentences : call = NewCall("parseToss", words)
       \/ \E hs \in HeaderLists, sch \in SchemaPairs :
            call = NewCall("matchInfoTeams", [headers |-> hs, schema |-> sch])
       \/ \E line \in ExtrasLines : call = NewCall("parseExtras", line)
       \/ \E html \in HtmlPages : call = NewCall("fetchMatchList", html)
       \/ \E html \in HtmlPages : \E i \in 0..(Len(html) - 1) :
            /\ html[i + 1] = "{"
            /\ call = NewCall("extractJsonAt", [html |-> html, startIdx |-> i])
       \/ \E n \in MatchIds, sl \in Slugs :
            call = NewCall("scorecardPath", [matchId |-> n, slug |-> sl])

ScraperNext ==
    \/ ParseStateCall
    \/ ScorecardPathCall
    \/ FlattenCall
    \/ ParseTossCall
    \/ MatchInfoTeamsCall
    \/ ParseExtrasCall
    \/ ExtractJsonAtCall
    \/ FetchMatchListCall

SpecScraper == ScraperInit /\ [][ScraperNext]_vars

----------------------------------------------------------------------------
(* Properties *)

\* C1 as stated: for ttl > 0, a get(k) made right after set(k, v, ttl) returns
\* v, and a get(k) made once ttl seconds have elapsed since that set returns
\* absent.
C1_SetGetThenExpire ==
    [][(ret.op = "set" /\ ret.num > 0 /\ ret'.op = "get" /\ ret'.key = ret.key)
       => /\ (ret'.at = ret.at) => (~ret'.null /\ ret'.value = ret.value)
          /\ (ret'.at - ret.at >= ret.num * MS_PER_SEC) => ret'.null]_vars

\* C1 as amended: for ttl > 0, a get(k) that follows set(k, v, ttl) returns v
\* right after the set and up to and including the instant ttl seconds later,
\* and returns absent once more than ttl seconds have elapsed.
C1_SetGetThenExpireStrictly ==
    [][(ret.op = "set" /\ ret.num > 0 /\ ret'.op = "get" /\ ret'.key = ret.key)
       => /\ (ret'.at - ret.at <= ret.num * MS_PER_SEC)
               => (~ret'.null /\ ret'.value = ret.value)
          /\ (ret'.at - ret.at > ret.num * MS_PER_SEC) => ret'.null]_vars

\* C1 witness: a get(k) found an entry set with ttl > 0 past its expiry and
\* returned absent.
C1_Witness ==
    ret.op = "get" /\ ret.num > 0 /\ ret.wasExpired /\ ret.null

\* C2 as stated: once an entry's expiry time has passed, get(k) and age(k)
\* both report absent, whichever is called first.
C2_AbsentOnceExpired ==
    (ret.op \in {"get", "age"} /\ ret.wasExpired) => ret.null

\* C2 as amended: once an entry's expiry time has passed, get(k) reports
\* absent and evicts the entry, and an age(k) that follows that get reports
\* absent; an age(k) called while the expired entry is still resident reports
\* its age.
C2_AbsentOnceEvicted ==
    [][/\ (ret'.op = "get" /\ ret'.wasExpired)
          => (ret'.null /\ store'[ret'.key] = NoEntry)
       /\ (ret.op = "get" /\ ret.null /\ ret'.op = "age" /\ ret'.key = ret.key)
          => ret'.null
       /\ (ret'.op = "age" /\ ret'.wasExpired) => ~ret'.null]_vars

\* C2 witness: age(k) was called on an expired entry that no get had evicted
\* yet, and reported a number.
C2_Witness ==
    ret.op = "age" /\ ret.wasExpired /\ ~ret.null

\* C3: a failed currentMatches refresh, under either policy, leaves an
\* unexpired currentMatches entry readable with the same value, cachedAt and
\* expiresAt, sets lastError to the failure's message and leaves lastSuccess
\* as it was.
C3_FailedRefreshKeepsCache ==
    [][\A f \in inflight, msg \in ErrMsgs :
         (f.key = LiveKey /\ IsPollerFetch(f, pending) /\ FetchFail(f, msg))
         => /\ GetResult(store, LiveKey, now) # Null
               => GetResult(store', LiveKey, now') = GetResult(store, LiveKey, now)
            /\ lastError' = msg
            /\ lastSuccess' = lastSuccess]_vars

\* C3 witness: a currentMatches refresh has just failed while an unexpired
\* entry cached by an earlier success is resident.
C3_Witness ==
    /\ lastEvent = [op |-> "fail", key |-> LiveKey, by |-> "poller"]
    /\ lastSuccess # NoTime
    /\ GetResult(store, LiveKey, now) # Null
    /\ lastError \in ErrMsgs

\* C4: under the scheduled poller the number of upstream requests does not
\* depend on client requests: handling a client request never starts an
\* upstream fetch.
C4_UpstreamIndependentOfClients ==
    [][(mode = "scheduled" /\ reqLeft' # reqLeft) => inflight' \subseteq inflight]_vars

\* C5: under the scheduled poller no two upstream fetches for the same list
\* key are in flight at the same time.
C5_NoOverlappingPolls ==
    mode = "scheduled" =>
        \A k \in ListKeys : Cardinality(InFlightFor(inflight, k)) <= 1

\* C6: under the on-demand policy a request to GET /matches or GET /matches/live
\* that observes a miss on currentMatches starts its own upstream fetch whether
\* or not one is already in flight for that key (misses are not coalesced).
C6_MissesNotCoalesced ==
    [][(reqLeft' # reqLeft /\ mode = "ondemand"
            /\ GetResult(store, LiveKey, now) = Null)
       => Cardinality(InFlightFor(inflight', LiveKey))
            = Cardinality(InFlightFor(inflight, LiveKey)) + 1]_vars

\* C6 witness: two fetches of currentMatches, each started by a request that
\* missed, are in flight at once.
C6_Witness ==
    /\ mode = "ondemand"
    /\ \E f \in inflight, g \in inflight :
         /\ f # g
         /\ f.key = LiveKey /\ g.key = LiveKey
         /\ f.by = "route" /\ g.by = "route"

C8_PollGapAtLeastTenSeconds ==
    [][(cronLive' # cronLive /\ cronLive # NoTime)
       => /\ cronLive' - cronLive >= MIN_POLL_SECS * MS_PER_SEC
          /\ cronLive' - cronLive = CronStep(pollSecs) * MS_PER_SEC]_vars

\* C9: age(k) does not decrease from one age(k) call to the next while no
\* set(k) intervenes, and is 0 right after any set(k), overwriting or not.
C9_AgeMonotoneAndReset ==
    [][/\ (ret.op = "set" /\ ret'.op = "age" /\ ret'.key = ret.key /\ ret'.at = ret.at)
          => (~ret'.null /\ ret'.num = 0)
       /\ (ret.op = "age" /\ ret'.op = "age" /\ ret'.key = ret.key
             /\ ~ret.null /\ ~ret'.null)
          => ret'.num >= ret.num]_vars

\* C9 witness: age(k) has reported a whole second or more for a resident entry.
C9_Witness ==
    ret.op = "age" /\ ~ret.null /\ ret.num >= 1

\* the first position of an id in a list
FirstIndex(list, id) ==
    CHOOSE i \in DOMAIN list :
        list[i].id = id /\ \A j \in DOMAIN list : list[j].id = id => i <= j

\* out is list with every record but the first of each id removed
IsFirstWinsDedup(out, list) ==
    /\ \A i \in DOMAIN list :
         Cardinality({j \in DOMAIN out : out[j].id = list[i].id}) = 1
    /\ \A j \in DOMAIN out :
         /\ \E i \in DOMAIN list : list[i].id = out[j].id
         /\ out[j] = list[FirstIndex(list, out[j].id)]
    /\ \A j1 \in DOMAIN out, j2 \in DOMAIN out :
         j1 < j2 => FirstIndex(list, out[j1].id) < FirstIndex(list, out[j2].id)

CachedLists ==
    DataOf(GetResult(store, LiveKey, now)) \o DataOf(GetResult(store, UpcomingKey, now))

\* C10: GET /matches answers with the cached current list followed by the
\* cached upcoming list, keeping of each id only its first record, in order.
C10_MergeFirstWins ==
    (resp.route = "matches" /\ resp.status = 200)
        => IsFirstWinsDedup(resp.data, CachedLists)

\* C10 witness: a merge answered where the same id was cached in both lists
\* with different records, and the current list's record was kept.
C10_Witness ==
    /\ resp.route = "matches" /\ resp.status = 200
    /\ \E i \in DOMAIN DataOf(GetResult(store, LiveKey, now)),
          j \in DOMAIN DataOf(GetResult(store, UpcomingKey, now)) :
         LET c == DataOf(GetResult(store, LiveKey, now))[i]
             u == DataOf(GetResult(store, UpcomingKey, now))[j]
         IN /\ c.id = u.id /\ c # u
            /\ \E k \in DOMAIN resp.data : resp.data[k] = c
    /\ Len(resp.data) >= 2

\* C11: for every state string, and for a missing state, parseState compares
\* the state with the two vocabularies whatever its letter case: matchEnded is
\* true exactly for the ended states, matchStarted exactly for the live and the
\* ended states, anything else gives neither; so matchEnded implies matchStarted.
C11_ParseStateVocabularies ==
    (Done("parseState") /\ call.arg.kind \in {"string", "undefined"})
    => /\ ~call.out.threw
       /\ call.out.value.matchEnded <=> (call.arg.text \in ENDED_STATES)
       /\ call.out.value.matchStarted
            <=> (call.arg.text \in LIVE_STATES \cup ENDED_STATES)
       /\ call.out.value.matchEnded => call.out.value.matchStarted

\* C11 witness: parseState was given an ended state written with capitals and
\* reported it started and ended.
C11_Witness ==
    /\ Done("parseState") /\ call.arg.kind = "string"
    /\ call.arg.caps # {} /\ call.arg.text \in ENDED_STATES
    /\ ~call.out.threw /\ call.out.value.matchEnded /\ call.out.value.matchStarted

\* C12: for every match id n and slug s of the navigation-link table, the id
\* normalizeMatch composes makes getScorecard / getMatchInfo request
\* /live-cricket-scorecard/n/s, or /live-cricket-scorecard/n when s is empty.
C12_IdRoundTrip ==
    Done("scorecardPath")
    => /\ ~call.out.threw
       /\ call.out.value =
            IF call.arg.slug = <<>> THEN ScorecardPrefix \o call.arg.matchId
            ELSE ScorecardPrefix \o call.arg.matchId \o <<"/">> \o call.arg.slug

\* an entry with a matchInfo whose state is a string or is missing
WellFormedEntry(m) == m.hasInfo /\ m.matchInfo.state.kind \in {"string", "undefined"}

\* C13: a malformed entry (no matchInfo, or a state that is null or not a
\* string) is skipped and every well-formed entry of the list is returned; the
\* fetch of the list does not fail.
C13_BadEntrySkipped ==
    Done("flatten")
    => /\ ~call.out.threw
       /\ \A i \in DOMAIN call.arg :
            WellFormedEntry(call.arg[i])
            => \E j \in DOMAIN call.out.value :
                 call.out.value[j].id =
                   NormalizeId(call.arg[i].matchInfo.matchId,
                               SlugOf(call.arg[i].matchInfo.matchId))

\* C14: started at a '{' whose object is closed, extractJsonAt returns the text
\* from that '{' to its matching '}', braces inside string values included.
C14_ExtractExactObject ==
    (Done("extractJsonAt") /\ MatchingClose(call.arg.html, call.arg.startIdx) # -1)
    => /\ ~call.out.value.null
       /\ call.out.value.raw =
            Slice(call.arg.html, call.arg.startIdx,
                  MatchingClose(call.arg.html, call.arg.startIdx) + 1)

\* the page has no marker, no '{' after the marker, or an object after the
\* marker that is never closed
NoListInPage(html) ==
    LET keyIdx == IndexOf(html, key[1], 0)
        braceIdx == IndexOf(html, "{", keyIdx + Len(key))
    IN \/ keyIdx < 0
       \/ braceIdx < 0
       \/ MatchingClose(html, braceIdx) = -1

\* C15: the fetch of the list fails when the marker is absent, when no '{'
\* follows it or when the object after it is never closed, and what it returns
\* never begins before the marker.
C15_FailsWithoutList ==
    Done("fetchMatchList")
    => /\ NoListInPage(call.arg) => call.out.threw
       /\ ~call.out.threw => call.out.value.start > IndexOf(call.arg, key[1], 0)

\* C16: parseExtras gives each label the line shows its own count and gives 0
\* to each label the line does not show.
C16_ExtrasPerLabel ==
    Done("parseExtras")
    => \A l \in DOMAIN LabelChars :
         call.out.value[l] = IF call.arg[l].absent THEN 0 ELSE call.arg[l].n

\* the matches of the two cached lists, as cache.get gives them at time t
CachedMatches(st, t) ==
    DataOf(GetResult(st, LiveKey, t)) \o DataOf(GetResult(st, UpcomingKey, t))

\* C17: the answer to a scorecard request for an id that neither cached list
\* holds is "not found" (404), never a success.
C17_UnlistedScorecardNotFound ==
    \A id \in DetailIds :
      (resp.route = "scorecard" /\ FindMatch(CachedMatches(store, now), id) = {})
      => resp.status = 404

\* C18: once a poll of the live list has succeeded, what cache.get, GET /matches
\* and GET /matches/live give differs from what they give on a cache that was
\* never populated, however old the entry has grown.
C18_OldDistinctFromNever ==
    lastSuccess # NoTime
    => /\ (ret.op = "get" /\ ret.key = LiveKey) => ~ret.null
       /\ resp.route = "live" => resp # RespondLive(Null, EmptyStore, now, FALSE)
       /\ resp.route = "matches" => resp # RespondMatches(Null, Null, EmptyStore, now, FALSE)

\* C19: the active count of stats() is the number of resident keys for which
\* get(k), called at the same instant, would return a value.
C19_ActiveAgreesWithGet ==
    (ret.op = "stats" /\ ret.at = now)
    => ret.num = Cardinality({k \in Keys : GetResult(store, k, now) # Null})

\* C20: every entry resident in the store expires after the time it was cached,
\* whatever sets the pollers and the routes have made with the configured TTLs.
C20_ExpiresAfterCached ==
    \A k \in Keys : store[k] # NoEntry => store[k].expiresAt > store[k].cachedAt

\* C21: under the on-demand policy nothing is scheduled, start() issues one
\* fetch of each list and every later fetch of a list is issued by a request
\* handler that has just found that list missing from the cache.
C21_OnDemandFetchesFollowMisses ==
    [][mode = "ondemand"
       => /\ cronLive' = NoTime /\ cronUpcoming' = NoTime
          /\ (started = NoTime /\ started' # NoTime)
             => /\ Cardinality(inflight' \ inflight) = Cardinality(ListKeys)
                /\ {f.key : f \in inflight' \ inflight} = ListKeys
          /\ started # NoTime
             => \A f \in inflight' \ inflight :
                  f.key \in ListKeys
                  => /\ f.by = "route" /\ f.req # 0
                     /\ pending'[f.req].route \in ListRoutes
                     /\ GetResult(store, f.key, now) = Null]_vars

C21_Witness ==
    /\ mode = "ondemand" /\ started # NoTime
    /\ \E f \in inflight : f.by = "route" /\ f.key = UpcomingKey /\ f.startedAt > started
    /\ GetResult(store, LiveKey, now) # Null

\* C22: an on-demand fetchCurrentMatches() / fetchUpcomingMatches() that
\* succeeds has written the fresh list under its key; one that fails leaves the
\* entry of its key exactly as it was and rejects, so that a GET /matches/live
\* awaiting it answers 503 without reading the cache again.
C22_OnDemandFetchWritesOrRejects ==
    [][(mode = "ondemand" /\ inflight' # inflight /\ inflight' \subseteq inflight)
       => LET f == CHOOSE g \in inflight : g \notin inflight'
          IN f.key \in ListKeys
             => /\ lastEvent'.op \in {"set", "fail"}
                /\ lastEvent'.op = "set"
                   => store'[f.key] = StoreSet(store, f.key, ListValue(f.key, PageAt(now)),
                                               TtlOf(f.key), now)[f.key]
                /\ lastEvent'.op = "fail"
                   => /\ store'[f.key] = store[f.key]
                      /\ f.key = LiveKey
                         => /\ lastError' \in ErrMsgs
                            /\ (lastError' = TimeoutMsg) <=> (now >= Deadline(f))
                      /\ (Resumes(inflight, f) /\ pending[f.req].route = "live")
                         => resp'.status = 503]_vars

\* C22 witness: an on-demand fetch of the live list has just failed while an
\* entry another fetch had written is resident.
C22_Witness ==
    /\ mode = "ondemand"
    /\ lastEvent = [op |-> "fail", key |-> LiveKey, by |-> "poller"]
    /\ store[LiveKey] # NoEntry
    /\ lastError \in ErrMsgs

\* C23: after a failed refresh of either list, status().lastError holds the
\* message of a failure.
C23_FailureRecorded ==
    (lastEvent.op = "fail" /\ lastEvent.by = "poller") => lastError \in ErrMsgs

\* C24: no failed refresh ends the process, under either policy: every
\* rejection has a handler, and requests are served after the failure.
C24_NoFailureIsFatal == started # Crashed

\* C24 witness: a refresh of the live list has failed and a request made after
\* it has been answered.
C24_Witness ==
    /\ Alive
    /\ resp.route = "health" /\ resp.status = 200
    /\ resp.data[1].lastError \in ErrMsgs

\* C25: with the default configuration a request for the match info of an id
\* made within one hour of the fetch that cached it is answered from the cache,
\* with no upstream request.
C25_MatchInfoCachedOneHour ==
    [][\A id \in DetailIds :
         (/\ store[MatchInfoKey(id)] # NoEntry
          /\ now - store[MatchInfoKey(id)].cachedAt <= SECS_PER_HOUR * MS_PER_SEC
          /\ ReqInfo(id))
         => /\ inflight' = inflight
            /\ resp'.status = 200 /\ ~resp'.fetched]_vars

\* C28: a request for a scorecard or a match info whose entry is cached and not
\* expired is answered with the cached value and starts no upstream fetch; a
\* fetch of a detail route that fails leaves the entry of its key as it was and
\* the request is answered with an error status.
C28_DetailServedFromCache ==
    [][/\ \A id \in DetailIds, route \in {"scorecard", "info"} :
            (GetResult(store, RouteCacheKey(route, id), now) # Null /\ ReqDetail(route, id))
            => /\ inflight' = inflight
               /\ resp' = SendCached(route, <<store[RouteCacheKey(route, id)].value>>,
                                     AgeOf(store, RouteCacheKey(route, id), now), FALSE)
       /\ (inflight' # inflight /\ inflight' \subseteq inflight)
          => LET f == CHOOSE g \in inflight : g \notin inflight'
             IN (f.key \in DetailKeys /\ lastEvent'.op = "fail")
                => /\ store'[f.key] = store[f.key]
                   /\ resp'.status = 500]_vars

\* C28 witness: a scorecard stored by a fetch of this run has been served from
\* the cache to a later request.
C28_Witness ==
    \E id \in DetailIds :
      /\ resp.route = "scorecard" /\ resp.status = 200
      /\ resp.hit = "true" /\ ~resp.fetched
      /\ store[ScorecardKey(id)] # NoEntry
      /\ \A t \in StartTimes : store[ScorecardKey(id)].cachedAt > t

\* the sentence has the form "<team> won the toss ... opt to bat|bowl"
MatchesTossPattern(words) ==
    /\ TossWinnerLen(words) > 0
    /\ \E i \in DOMAIN words :
         /\ i > TossWinnerLen(words) + 3
         /\ WordsAt(words, i, <<"opt", "to">>)
         /\ i + 2 <= Len(words)
         /\ LowerWord(words[i + 2]) \in {"bat", "bowl"}

\* C26: tossChoice is "bat", "bowl" or absent, and tossWinner and tossChoice
\* are absent when the sentence has not the form
\* "<team> won the toss ... opt to bat|bowl".
C26_TossFields ==
    Done("parseToss")
    => /\ call.out.value.tossChoice \in {"bat", "bowl", ""}
       /\ ~MatchesTossPattern(call.arg)
          => call.out.value.tossWinner = <<>> /\ call.out.value.tossChoice = ""

\* C27: the teams list never has more than two entries nor the same team
\* twice, and is the list of the headers when they yield two teams.
C27_TeamsAtMostTwo ==
    Done("matchInfoTeams")
    => /\ Len(call.out.value) <= 2
       /\ \A i, j \in DOMAIN call.out.value :
            TeamOf(call.out.value[i]) = TeamOf(call.out.value[j]) => i = j
       /\ Len(HeaderTeams(call.arg.headers, <<>>)) = 2
          => call.out.value = HeaderTeams(call.arg.headers, <<>>)

\* C29: the result of a fetch of the live list that started earlier never
\* replaces, in the cache, the result of a fetch that started later.
C29_NeverReplacedByOlder == [][liveFrom' >= liveFrom]_vars

\* C30: under the scheduled poller with the default configuration and an
\* upstream that answers every fetch, GET /matches/live never answers 503 once
\* the live list has been written.
C30_LiveAlwaysReadable ==
    (resp.route = "live" /\ lastSuccess # NoTime) => resp.status # 503

\* C31: a response that carries the X-Cache-Hit header has it 'true' exactly
\* when its handler made no upstream fetch (the data came from an entry that
\* was already in the cache), and 'false' exactly when the handler fetched the
\* data itself.
C31_CacheHitHeader ==
    resp.status = 200
    => /\ resp.hit = "true" <=> ~resp.fetched
       /\ resp.hit = "false" <=> resp.fetched

\* C32: under either refresh policy, whenever a currentMatches entry is in the
\* cache, lastSuccess is set and not earlier than the entry's cachedAt and the
\* attempt counter (pollCount / fetchCount) is at least 1; the counter never
\* decreases.
C32_StatusCoversLiveEntry ==
    /\ [](store[LiveKey] # NoEntry
           => /\ lastSuccess # NoTime
              /\ lastSuccess >= store[LiveKey].cachedAt
              /\ attemptCount >= 1)
    /\ [][attemptCount' >= attemptCount]_vars

\* C32 witness: the on-demand server holds a live list after its start-up
\* fetch failed and the refetch of a request succeeded.
C32_Witness ==
    /\ mode = "ondemand"
    /\ store[LiveKey] # NoEntry
    /\ lastSuccess = store[LiveKey].cachedAt
    /\ lastError # NoError
    /\ attemptCount >= 2

====
